---- MODULE Spec2Model ----
(***************************************************************************)
(* unifi-declarative-network: the apply run (apply.py main, reached        *)
(* directly or through cli.py main), the validators it calls               *)
(* (validators.py), the controller client it drives (client.py) and the    *)
(* two validation commands (validate.py main, cli.py cmd_validate).        *)
(*                                                                         *)
(* One behaviour is a sequence of apply runs of one operator with one      *)
(* configuration against one controller.  The controller is the            *)
(* environment: it answers every HTTP request with any status.             *)
(***************************************************************************)
EXTENDS Integers, Sequences, FiniteSets, TLC

\* ------------------------------------------------------------------ bounds

\* Most VLANs in a declared set.
MaxVlans == 2
\* Most apply runs of one behaviour.
MaxRuns == 2
\* Most VLANs in a declared set made to try validate_vlan_count.
MaxDeclared == 33
\* Most network objects in a collection made to try find_existing_vlan.
MaxNetworks == 3

\* ------------------------------------------------------- program constants

\* retry_on_429(max_retries=3, backoff=2.0)
MaxRetries == 3
Backoff == 2
\* limits = {"usg3p": 8, "uxg-pro": 32, "udm-se": 32, "udm-pro": 32}
LimitUsg3p == 8
LimitBig == 32
\* 802.1Q range checked by validate_vlan_schema
VlanIdMin == 1
VlanIdMax == 4094
VlanIdReserved == 4095
\* the default (management) VLAN
DefaultVlan == 1
\* time.sleep(2) between the VLANs of the apply loop
UpsertDelay == 2
\* wait_for_provisioning(timeout=90), poll_interval=5
ProvisionTimeout == 90
PollInterval == 5
\* session.get(url, timeout=30)
RequestTimeout == 30

\* --------------------------------------------------------------- helpers

RECURSIVE Pow(_, _)
Pow(b, e) == IF e = 0 THEN 1 ELSE b * Pow(b, e - 1)

Range(s) == {s[i] : i \in DOMAIN s}

\* a mapping without one of its keys
Without(rec, f) == [k \in (DOMAIN rec) \ {f} |-> rec[k]]

\* dict.get(key) is truthy: the key is there and its value is not empty
Has(rec, f) == f \in DOMAIN rec

\* ------------------------------------------------------------ addresses

\* int(ip_address("a.b.c.d"))
IpInt(ip) == ((ip[1] * 256 + ip[2]) * 256 + ip[3]) * 256 + ip[4]

\* ip_address(x) in ip_network(n): same leading n.len bits
InSubnet(ip, n) ==
    LET block == Pow(2, 32 - n.len)
    IN  IpInt(ip) \div block = IpInt(n.net) \div block

\* ip_network(n) with strict=True raises ValueError when host bits are set
HasHostBits(n) == IpInt(n.net) % Pow(2, 32 - n.len) # 0

\* ----------------------------------------------------------- VLAN records

IntId(n) == [t |-> "int", v |-> n]
StrId(n) == [t |-> "str", v |-> n]

Servers ==
    [name |-> "servers", subnet |-> [net |-> <<10, 0, 10, 0>>, len |-> 24],
     gateway |-> <<10, 0, 10, 1>>, vlan_id |-> IntId(10),
     dhcp_enabled |-> TRUE, enabled |-> TRUE,
     dhcp_start |-> <<10, 0, 10, 10>>, dhcp_stop |-> <<10, 0, 10, 200>>]

Users ==
    [name |-> "users", subnet |-> [net |-> <<10, 0, 20, 0>>, len |-> 24],
     gateway |-> <<10, 0, 20, 1>>, vlan_id |-> IntId(20),
     dhcp_enabled |-> FALSE, enabled |-> TRUE]

DefaultLan ==
    [name |-> "default", subnet |-> [net |-> <<10, 0, 1, 0>>, len |-> 27],
     gateway |-> <<10, 0, 1, 1>>, vlan_id |-> IntId(DefaultVlan),
     dhcp_enabled |-> FALSE, enabled |-> TRUE]

\* the records a declared set is drawn from: two good ones, the default VLAN,
\* and one flaw of each kind validate_vlan_schema looks for
VlanPool ==
    { Servers, Users, DefaultLan,
      Without(Users, "gateway"),
      [Users EXCEPT !.vlan_id = StrId(20)],
      [Users EXCEPT !.vlan_id = IntId(VlanIdReserved)],
      [Servers EXCEPT !.dhcp_start = <<10, 0, 10, 1>>] }

\* the keys of vlans.yaml
VlanKeys == {"1", "10", "20"}

\* the first key of the declared sets made to try validate_vlan_count
CountedBase == 100

\* int(key)
KeyInt(k) ==
    CASE k = "1" -> 1 [] k = "10" -> 10 [] k = "20" -> 20
      [] OTHER -> CHOOSE n \in CountedBase .. (CountedBase + MaxDeclared + 1) : ToString(n) = k

\* a declared set: the mapping under "vlans", in file order
Entries == [key : VlanKeys, rec : VlanPool]

RECURSIVE SeqsUpTo(_, _)
SeqsUpTo(S, n) ==
    IF n = 0 THEN {<<>>}
    ELSE LET shorter == SeqsUpTo(S, n - 1)
         IN  shorter \cup {Append(s, x) : s \in shorter, x \in S}

DistinctKeys(s) == \A i, j \in DOMAIN s : i # j => s[i].key # s[j].key

DeclaredSets == {s \in SeqsUpTo(Entries, MaxVlans) : DistinctKeys(s)}

HasKey(vl, k) == \E i \in DOMAIN vl : vl[i].key = k

\* vlans.get(k): the record under k, as a sequence of zero or one
Lookup(vl, k) == SelectSeq(vl, LAMBDA e : e.key = k)

\* the records a validator is tried on: those of VlanPool, and a subnet that
\* does not parse beside a DHCP pool that holds the gateway, a subnet with
\* host bits set, a gateway outside the subnet, vlan_id 0, a pool that holds
\* the gateway with DHCP off, a pool with no end
SchemaPool ==
    VlanPool \cup
    { [Servers EXCEPT !.subnet = [net |-> <<10, 0, 10, 0>>, len |-> 33],
                      !.dhcp_start = <<10, 0, 10, 1>>],
      [Servers EXCEPT !.subnet = [net |-> <<10, 0, 10, 1>>, len |-> 24]],
      [Servers EXCEPT !.gateway = <<10, 0, 99, 1>>],
      [Users EXCEPT !.vlan_id = IntId(0)],
      [Servers EXCEPT !.dhcp_enabled = FALSE, !.dhcp_start = <<10, 0, 10, 1>>],
      Without([Servers EXCEPT !.dhcp_start = <<10, 0, 10, 1>>], "dhcp_stop") }

SchemaSets ==
    {s \in SeqsUpTo([key : VlanKeys, rec : SchemaPool], MaxVlans) : DistinctKeys(s)}

\* a declared set of n VLANs, with the key "1" among them or not
Counted(n, withDefault) ==
    [i \in 1 .. n |->
        [key |-> IF withDefault /\ i = 1 THEN "1" ELSE ToString(CountedBase + i),
         rec |-> Users]]

CountedSets == {Counted(n, d) : n \in 1 .. MaxDeclared, d \in BOOLEAN}

\* the declared sets the validators are tried on
ValidatorSets == SchemaSets \cup CountedSets

\* ------------------------------------------------------------ validators

\* hardware_profile.lower() on the profile names of the model
ProfileNames == {"usg3p", "USG3P", "uxg-pro", "udm-se", "udm-pro", "edgerouter"}

Lower(p) == IF p = "USG3P" THEN "usg3p" ELSE p

\* limits.get(profile): the ceiling, 0 for a name that is not a key
Limits(p) ==
    CASE p = "usg3p" -> LimitUsg3p
      [] p \in {"uxg-pro", "udm-se", "udm-pro"} -> LimitBig
      [] OTHER -> 0

\* validate_vlan_count that compares with >= where the code has >
ValidateVlanCountOffByOne(vl, p) ==
    IF HasKey(vl, "1") THEN "vlan1_key"
    ELSE IF Limits(Lower(p)) = 0 THEN "unknown_profile"
    ELSE IF Len(vl) >= Limits(Lower(p)) THEN "too_many"
    ELSE "ok"

\* validate_vlan_count: "ok", or the ValidationError it raises
ValidateVlanCount(vl, p) ==
    IF HasKey(vl, "1") THEN "vlan1_key"
    ELSE IF Limits(Lower(p)) = 0 THEN "unknown_profile"
    ELSE IF Len(vl) > Limits(Lower(p)) THEN "too_many"
    ELSE "ok"

RequiredFields == {"name", "subnet", "gateway", "vlan_id", "dhcp_enabled", "enabled"}

\* ip_network(subnet, strict=False) parses: the prefix length is one of IPv4
ValidNetwork(n) == n.len \in 0 .. 32

\* the DHCP pool check of validate_vlan_schema: the comparison is reached only
\* when ip_network(subnet) parsed, since every other exception is swallowed
DhcpOverlapsGateway(rec) ==
    /\ rec.dhcp_enabled
    /\ Has(rec, "dhcp_start") /\ Has(rec, "dhcp_stop")
    /\ ValidNetwork(rec.subnet)
    /\ IpInt(rec.gateway) >= IpInt(rec.dhcp_start)
    /\ IpInt(rec.gateway) <= IpInt(rec.dhcp_stop)

\* validate_vlan_schema without its VLAN 1 check
ValidateVlanSchemaLax(rec) ==
    IF ~(RequiredFields \subseteq DOMAIN rec) THEN "missing_field"
    ELSE IF rec.vlan_id.t # "int" THEN "not_int"
    ELSE IF ~(VlanIdMin <= rec.vlan_id.v /\ rec.vlan_id.v <= VlanIdMax) THEN "range"
    ELSE IF DhcpOverlapsGateway(rec) THEN "dhcp_overlap"
    ELSE "ok"

\* validate_vlan_schema: "ok", or the ValidationError it raises
ValidateVlanSchema(rec) ==
    IF ~(RequiredFields \subseteq DOMAIN rec) THEN "missing_field"
    ELSE IF rec.vlan_id.t # "int" THEN "not_int"
    ELSE IF rec.vlan_id.v = DefaultVlan THEN "vlan1"
    ELSE IF ~(VlanIdMin <= rec.vlan_id.v /\ rec.vlan_id.v <= VlanIdMax) THEN "range"
    ELSE IF rec.vlan_id.v = VlanIdReserved THEN "reserved"
    ELSE IF DhcpOverlapsGateway(rec) THEN "dhcp_overlap"
    ELSE "ok"

\* the loop "for key, vlan in vlans.items(): validate_vlan_schema(vlan)":
\* the first error in file order
RECURSIVE SchemaLoop(_, _)
SchemaLoop(vl, i) ==
    IF i > Len(vl) THEN "ok"
    ELSE IF ValidateVlanSchema(vl[i].rec) # "ok" THEN ValidateVlanSchema(vl[i].rec)
    ELSE SchemaLoop(vl, i + 1)

\* ------------------------------------------------------------- hardware

Trunk(tags) == [type |-> "trunk", native_vlan |-> 1, tagged_vlans |-> tags]

Switch(assignment) ==
    [model |-> "US-8-60W", uplink_port |-> <<1>>, port_assignments |-> (1 :> assignment)]

Controller == [current_ip |-> <<10, 0, 1, 5>>, target_ip |-> <<10, 0, 10, 5>>]

\* the hardware.yaml of the model: its uplink trunk carries VLANs 10 and 20,
\* its controller moves into VLAN 10
Hardwares == { [switches |-> <<Switch(Trunk(<<20, 10>>))>>, controller |-> Controller] }

\* the hardware.yaml documents the validators are tried on: that of Hardwares
\* with one thing changed in the uplink, the switches or the controller
ValidatorHardwares ==
    { [switches |-> <<Switch(Trunk(tags))>>, controller |-> Controller] :
         tags \in {<<20, 10>>, <<10, 20>>, <<10, 10, 20>>, <<10>>, <<10, 20, 1>>, <<>>} }
    \cup
    { [switches |-> sw, controller |-> Controller] :
         sw \in { <<>>,
                  <<[Switch(Trunk(<<10, 20>>)) EXCEPT !.model = "US-16-150W"]>>,
                  <<[Switch(Trunk(<<10, 20>>)) EXCEPT !.uplink_port = <<>>]>>,
                  <<[Switch(Trunk(<<10, 20>>)) EXCEPT !.uplink_port = <<2>>]>>,
                  <<Switch([Trunk(<<10, 20>>) EXCEPT !.type = "access"])>>,
                  <<Switch([Trunk(<<10, 20>>) EXCEPT !.native_vlan = 10])>> } }
    \cup
    { [switches |-> <<Switch(Trunk(<<10, 20>>))>>, controller |-> c] :
         c \in { [Controller EXCEPT !.target_ip = Controller.current_ip],
                 Without(Controller, "target_ip"),
                 [Controller EXCEPT !.target_ip = <<10, 0, 20, 5>>] } }

\* a port assignment that names a device: access ports, none the uplink
Port(device, mac) == [type |-> "access", device |-> device, mac |-> mac]

\* the port assignments validate_hardware_inventory is tried on: complete,
\* free (device "empty"), device without mac, device with an empty mac, the
\* marker for the device and no mac, the marker for the mac, the marker in
\* another field of a port that names no device
InventoryPorts ==
    { Port("controller", "aa:bb:cc:dd:ee:ff"),
      Without(Port("empty", ""), "mac"),
      Without(Port("nas", ""), "mac"),
      Port("nas", ""),
      Without(Port("TBD", ""), "mac"),
      Port("nas", "TBD"),
      [type |-> "access", note |-> "vendor TBD"] }

\* the switches of those hardware.yaml documents: one or two ports each
InventorySwitches ==
    { [model |-> m, uplink_port |-> <<1>>, port_assignments |-> pa] :
         m \in {"US-8-60W", "US-16-150W"},
         pa \in SeqsUpTo(InventoryPorts, MaxVlans) \ {<<>>} }

\* the hardware.yaml documents validate_hardware_inventory is tried on: one
\* switch, or a US-8-60W followed by another switch
InventoryHardwares ==
    { [switches |-> <<a>>, controller |-> Controller] : a \in InventorySwitches }
    \cup
    { [switches |-> <<a, b>>, controller |-> Controller] :
         a \in {x \in InventorySwitches : x.model = "US-8-60W"},
         b \in {x \in InventorySwitches : x.model = "US-16-150W"} }

\* next((s for s in switches if s.get("model") == "US-8-60W"), None)
TargetSwitch(hw) == SelectSeq(hw.switches, LAMBDA s : s.model = "US-8-60W")

Sorted(s) == SortSeq(s, LAMBDA a, b : a < b)

\* [int(v) for v in vlans.keys() if int(v) != 1]
RequiredTags(vl) ==
    LET kept == SelectSeq(vl, LAMBDA e : KeyInt(e.key) # 1)
    IN  [i \in DOMAIN kept |-> KeyInt(kept[i].key)]

\* validate_uplink_trunk_config: "ok", or the ValidationError it raises
ValidateUplinkTrunk(hw, vl) ==
    IF TargetSwitch(hw) = <<>> THEN "no_switch"
    ELSE LET sw == Head(TargetSwitch(hw)) IN
    IF sw.uplink_port = <<>> THEN "no_uplink_port"
    ELSE IF Head(sw.uplink_port) \notin DOMAIN sw.port_assignments THEN "no_assignment"
    ELSE LET uplink == sw.port_assignments[Head(sw.uplink_port)] IN
    IF uplink.type # "trunk" THEN "not_trunk"
    ELSE IF uplink.native_vlan # 1 THEN "native_vlan"
    ELSE IF Sorted(uplink.tagged_vlans) # Sorted(RequiredTags(vl)) THEN "tags_mismatch"
    ELSE "ok"

\* validate_controller_ip_migration: "ok", the ValidationError it raises, or
\* "ValueError" for the exception ip_network raises on a subnet with host bits
ValidateControllerMigration(hw, vl) ==
    IF ~(Has(hw.controller, "current_ip") /\ Has(hw.controller, "target_ip")) THEN "ips_missing"
    ELSE IF hw.controller.current_ip = hw.controller.target_ip THEN "same_ip"
    ELSE IF Lookup(vl, "10") = <<>> THEN "no_vlan10"
    ELSE LET vlan10 == Head(Lookup(vl, "10")).rec IN
    IF ~Has(vlan10, "subnet") THEN "KeyError"
    ELSE IF ~ValidNetwork(vlan10.subnet) THEN "ValueError"
    ELSE IF HasHostBits(vlan10.subnet) THEN "ValueError"
    ELSE IF ~InSubnet(hw.controller.target_ip, vlan10.subnet) THEN "target_outside"
    ELSE IF ~Has(vlan10, "gateway") THEN "no_gateway"
    ELSE IF ~InSubnet(vlan10.gateway, vlan10.subnet) THEN "gateway_outside"
    ELSE "ok"

\* the strings that hold the placeholder marker
Marked == {"TBD", "vendor TBD"}

\* the keys of a port assignment whose values are strings
TextKeys == {"type", "device", "mac", "note"}

\* "TBD" in str(cfg): a value of the assignment holds the marker
HasMarker(cfg) == \E f \in (DOMAIN cfg) \cap TextKeys : cfg[f] \in Marked

\* device and device != "empty" and not mac
MissingMac(cfg) ==
    /\ Has(cfg, "device") /\ cfg.device # "" /\ cfg.device # "empty"
    /\ ~(Has(cfg, "mac") /\ cfg.mac # "")

\* a line of the error message: f"Switch {model} port {port_num} ..."
Line(model, port, kind) == [model |-> model, port |-> port, kind |-> kind]

\* errors.append for one port: the marker line, then the missing-MAC line
PortErrors(sw, p) ==
    (IF HasMarker(sw.port_assignments[p]) THEN <<Line(sw.model, p, "tbd")>> ELSE <<>>)
    \o (IF MissingMac(sw.port_assignments[p]) THEN <<Line(sw.model, p, "mac")>> ELSE <<>>)

\* for port_num, cfg in pa.items(): the ports from p on
RECURSIVE SwitchErrors(_, _)
SwitchErrors(sw, p) ==
    IF p > Len(sw.port_assignments) THEN <<>>
    ELSE PortErrors(sw, p) \o SwitchErrors(sw, p + 1)

\* for sw in switches: the switches from i on
RECURSIVE InventoryErrors(_, _)
InventoryErrors(switches, i) ==
    IF i > Len(switches) THEN <<>>
    ELSE SwitchErrors(switches[i], 1) \o InventoryErrors(switches, i + 1)

\* validate_hardware_inventory that raises at the first violation it meets
ValidateHardwareInventoryFailFast(hw) ==
    LET errors == InventoryErrors(hw.switches, 1)
    IN  IF errors = <<>> THEN errors ELSE <<Head(errors)>>

\* validate_hardware_inventory: the lines of the ValidationError it raises,
\* none when it returns
ValidateHardwareInventory(hw) == InventoryErrors(hw.switches, 1)

\* ------------------------------------------------- controller and client

\* a network object of the controller: _id (0: none), its VLAN tag (0: none),
\* its name, and the key of the declared VLAN whose POST created it ("pre":
\* it was there before the first run)
Object(id, vlan, name, origin) == [id |-> id, vlan |-> vlan, name |-> name, origin |-> origin]

\* what the controller holds before the first run: its Default LAN
InitialRemotes == {<<Object(1, 0, "default", "pre")>>}

\* the controller's answer to a request: a response (status, and whether its
\* body text contains "429"), no answer in 30 s, or no connection
Resp(status, body429) == [t |-> "resp", status |-> status, body429 |-> body429, ready |-> FALSE]

Answers ==
    { Resp(200, FALSE), Resp(401, FALSE), Resp(429, FALSE),
      Resp(500, FALSE), Resp(500, TRUE),
      [t |-> "timeout", status |-> 0, body429 |-> FALSE, ready |-> FALSE],
      [t |-> "conn", status |-> 0, body429 |-> FALSE, ready |-> FALSE] }

\* the answers to GET /stat/device: a 200 also tells whether every usg/usw
\* device has state 1
DeviceAnswers == Answers \cup {[Resp(200, FALSE) EXCEPT !.ready = TRUE]}

\* the body of a 2xx login response
LoginBodies == {"token", "notoken", "emptydata", "nodata"}

LoginAnswers ==
    { [t |-> "resp", status |-> 200, body |-> b] : b \in LoginBodies } \cup
    { [t |-> "resp", status |-> 401, body |-> "nodata"],
      [t |-> "conn", status |-> 0, body |-> "nodata"] }

\* an exception: its class, the status it reports, and whether str(e)
\* contains "429"
Err(cls, status, text429) == [cls |-> cls, status |-> status, text429 |-> text429]
NoErr == Err("none", 0, FALSE)

\* login(): the exception it raises on this answer (NoErr: none)
LoginError(a) ==
    IF a.t = "conn" THEN Err("ConnectionError", 0, FALSE)
    ELSE IF a.status # 200 THEN Err("HTTPError", a.status, FALSE)
    ELSE IF a.body = "emptydata" THEN Err("IndexError", 0, FALSE)
    ELSE NoErr

\* login(): the token it stores on a 2xx answer
LoginToken(a) == IF a.body = "token" THEN "token" ELSE "cookie-auth"

\* f"API error {resp.status_code}: {resp.text}"
ApiError(status, body429) == Err("RuntimeError", status, status = 429 \/ body429)

\* the RuntimeError post/put make of a failed exchange
ExchangeError(a) ==
    IF a.t = "timeout" THEN Err("RuntimeError", 0, FALSE)
    ELSE IF a.t = "conn" THEN Err("RuntimeError", 0, a.body429)
    ELSE ApiError(a.status, a.body429)

\* a client call in progress.  op: the method; what: the request it makes;
\* target: the _id a PUT names; stage: send, relogin, resend, then returned
\* or raised; attempt: the wrapper's loop variable; sleeps: the delays slept so
\* far; relogins: login() calls made by this call; first401: status 401 met;
\* body401: the body flag of the 401 response still bound to resp; answers:
\* how each finished attempt ended; err: the exception raised
Request(op, what, target) ==
    [op |-> op, what |-> what, target |-> target, stage |-> "send", attempt |-> 0,
     sleeps |-> <<>>, relogins |-> 0, saw401 |-> FALSE, body401 |-> FALSE,
     answers |-> <<>>, ready |-> FALSE, err |-> NoErr]

Idle == [Request("none", "none", 0) EXCEPT !.stage = "idle"]

\* how an attempt ended, for the record
AnswerClass(e) ==
    IF e = NoErr THEN "ok"
    ELSE IF e.status = 429 THEN "429"
    ELSE IF e.cls = "RuntimeError" /\ e.text429 THEN "text429"
    ELSE "error"

\* an attempt of a call returned
Returned(r) == [r EXCEPT !.stage = "returned", !.answers = Append(@, "ok")]

\* an attempt of a call raised e, with no retry wrapper around it
Raised(r, e) ==
    [r EXCEPT !.stage = "raised", !.err = e, !.body401 = FALSE,
              !.answers = Append(@, AnswerClass(e))]

\* retry_on_429 with the sleep taken after the last attempt too
RetryOn429SleepLast(r, e) ==
    IF e.cls = "RuntimeError" /\ e.text429
    THEN IF r.attempt < MaxRetries - 1
         THEN [r EXCEPT !.stage = "send", !.attempt = @ + 1, !.body401 = FALSE,
                        !.sleeps = Append(@, Pow(Backoff, r.attempt)),
                        !.answers = Append(@, AnswerClass(e))]
         ELSE [Raised(r, e) EXCEPT !.sleeps = Append(@, Pow(Backoff, r.attempt))]
    ELSE Raised(r, e)

\* retry_on_429's except clause: the wrapped call raised e in attempt r.attempt
RetryOn429(r, e) ==
    IF e.cls = "RuntimeError" /\ e.text429 /\ r.attempt < MaxRetries - 1
    THEN [r EXCEPT !.stage = "send", !.attempt = @ + 1, !.body401 = FALSE,
                   !.sleeps = Append(@, Pow(Backoff, r.attempt)),
                   !.answers = Append(@, AnswerClass(e))]
    ELSE Raised(r, e)

\* find_existing_vlan: the first object whose VLAN tag or name matches, as a
\* sequence of zero or one
FindExistingVlan(networks, rec) ==
    LET hits == SelectSeq(networks, LAMBDA n : n.vlan = rec.vlan_id.v \/ n.name = rec.name)
    IN  IF hits = <<>> THEN <<>> ELSE <<Head(hits)>>

\* the shapes of the networks argument: the mapping list_networks returns,
\* with the list under "data", and the bare list
Shapes == {"mapping", "list"}

\* find_existing_vlan on either shape: a bare list has no get(), so
\* networks.get("data", ...) raises AttributeError before the loop; the
\* except clause swallows it and None is returned
FindExistingVlanIn(shape, networks, rec) ==
    IF shape = "list" THEN <<>> ELSE FindExistingVlan(networks, rec)

\* upsert_vlan that creates whatever it is given
UpsertVlanAlwaysPost(existing) == Request("post", "create", 0)

\* upsert_vlan: PUT on the existing object's _id, else POST
UpsertVlan(existing) ==
    IF existing # <<>> /\ Head(existing).id # 0
    THEN Request("put", "update", Head(existing).id)
    ELSE Request("post", "create", 0)

\* the _id a call of upsert_vlan names in the path of its PUT, if it is one
PutTarget(r) == IF r.op = "put" THEN {r.target} ELSE {}

\* ------------------------------------------------------------------ state

VARIABLES
    entry,        \* "apply": python -m apply;  "cli": the cli's apply command
    flags,        \* the command line flags
    fileExists,   \* config/vlans.yaml is there
    vlans,        \* the declared set of vlans.yaml
    sections,     \* the other top-level sections of vlans.yaml
    hardware,     \* hardware.yaml
    profile,      \* the hardware_profile validate_vlan_count is given
    remote,       \* the controller's network objects
    run,          \* the number of this run
    pc,           \* where main is
    exit,         \* the exit code of the run ("none": running)
    report,       \* what the run printed last about its result
    token,        \* client._token
    live,         \* live_networks
    idx,          \* the apply loop's position in vlans
    req,          \* the client call in progress
    sent,         \* the kinds of HTTP request issued in this run
    upserts,      \* upsert_vlan invocations of this run, per declared VLAN
    lastUpsert,   \* the arguments of the latest upsert_vlan invocation
    elapsed,      \* time.time() - start in wait_for_provisioning
    stateFile,    \* last-applied.yaml as this run wrote it (<<>>: not written)
    typed,        \* the line input() read at the confirmation prompt
    previous,     \* the exit code of the run before this one ("none": no such run)
    puts          \* the _ids the PUTs of this run named, per declared VLAN

vars == <<entry, flags, fileExists, vlans, sections, hardware, profile, remote, run, pc,
          exit, report, token, live, idx, req, sent, upserts, lastUpsert, elapsed,
          stateFile, typed, previous, puts>>

config == <<entry, flags, fileExists, vlans, sections, hardware, profile>>

Flags == [dry_run : BOOLEAN, check_mode : BOOLEAN, migrate : BOOLEAN,
          ack : BOOLEAN, force : BOOLEAN]

\* what the operator types at the confirmation prompt ("EOF": nothing)
Inputs == {"yes", " YES ", "no", "EOF"}

\* input().strip().lower()
StripLower(s) == IF s = " YES " THEN "yes" ELSE s

\* what main prints about its result: a message and the VLAN count in it
Report(what, n) == [what |-> what, n |-> n]
NoReport == Report("none", 0)

\* a section of vlans.yaml beside "vlans": absent (<<>>), or the keys it holds
Section(keys) == <<keys>>
Absent == <<>>

\* vlans.yaml with no section but "vlans"
PlainFile == [controller |-> Absent, wan |-> Absent, site |-> Absent]

\* the documents vlans.yaml can be beside its VLANs: plain, with a controller
\* section that holds a password, with a wan section that holds two secrets
SectionChoices ==
    { PlainFile,
      [PlainFile EXCEPT !.controller = Section({"url", "password"})],
      [PlainFile EXCEPT !.wan = Section({"community", "radius_key", "mtu"}),
                        !.site = Section({"secret"})] }

\* for key in ("password", "secret", "community", "radius_key")
SecretKeys == {"password", "secret", "community", "radius_key"}

\* cmd_apply's sanitize_state_for_storage: a copy with the secret keys popped
\* from the controller and wan sections
SanitizeStateForStorage(state) ==
    [state EXCEPT !.controller = IF @ = Absent THEN @ ELSE Section(Head(@) \ SecretKeys),
                  !.wan = IF @ = Absent THEN @ ELSE Section(Head(@) \ SecretKeys)]

\* data = yaml.safe_load(f): the whole document; desired = data
Desired == [vlans |-> vlans, controller |-> sections.controller, wan |-> sections.wan,
            site |-> sections.site]

\* a process starts: nothing done yet
FreshRun ==
    /\ pc = "start"
    /\ exit = "none"
    /\ report = NoReport
    /\ token = "none"
    /\ live = <<>>
    /\ idx = 0
    /\ req = Idle
    /\ sent = {}
    /\ upserts = [i \in DOMAIN vlans |-> 0]
    /\ lastUpsert = <<>>
    /\ elapsed = 0
    /\ stateFile = <<>>
    /\ typed = "none"
    /\ puts = [i \in DOMAIN vlans |-> {}]

Init ==
    /\ entry \in {"apply", "cli"}
    /\ flags \in Flags
    /\ fileExists \in BOOLEAN
    /\ vlans \in DeclaredSets
    /\ fileExists = FALSE => vlans = <<>>
    /\ sections = PlainFile
    /\ hardware \in Hardwares
    /\ profile = "usg3p"
    /\ remote \in InitialRemotes
    /\ run = 1
    /\ previous = "none"
    /\ FreshRun

\* one valid declared set, every flag combination, every document
InitState ==
    /\ entry \in {"apply", "cli"}
    /\ flags \in Flags
    /\ fileExists = TRUE
    /\ vlans = <<[key |-> "10", rec |-> Servers]>>
    /\ sections \in SectionChoices
    /\ hardware \in Hardwares
    /\ profile = "usg3p"
    /\ remote \in InitialRemotes
    /\ run = 1
    /\ previous = "none"
    /\ FreshRun

\* main returns code
Return(code, what) ==
    /\ pc' = "done"
    /\ exit' = code
    /\ report' = what
    /\ req' = Idle

\* --------------------------------------------------- the client's requests

\* the request is on the wire
Send(what) == sent' = sent \cup {what}

\* client.login() called by main
LoginExchange ==
    /\ req.op = "login" /\ req.stage = "send"
    /\ \E a \in LoginAnswers :
        /\ Send("login")
        /\ IF LoginError(a) = NoErr
           THEN token' = LoginToken(a) /\ req' = Returned(req)
           ELSE token' = token /\ req' = Raised(req, LoginError(a))
    /\ UNCHANGED <<config, previous, typed, remote, run, pc, exit, report, live, idx, upserts, puts,
                   lastUpsert, elapsed, stateFile>>

\* client.get(path): one exchange, raise_for_status, no second try
GetExchange ==
    /\ req.op = "get" /\ req.stage = "send"
    /\ \E a \in (IF req.what = "devices" THEN DeviceAnswers ELSE Answers) :
        /\ Send(req.what)
        /\ req' = CASE a.t = "resp" /\ a.status = 200 -> [Returned(req) EXCEPT !.ready = a.ready]
                    [] a.t = "resp" /\ a.status # 200 ->
                         [Raised(req, Err("HTTPError", a.status, FALSE))
                            EXCEPT !.saw401 = (a.status = 401)]
                    [] a.t = "timeout" -> Raised(req, Err("Timeout", 0, FALSE))
                    [] a.t = "conn" -> Raised(req, Err("ConnectionError", 0, FALSE))
    /\ UNCHANGED <<config, previous, typed, remote, run, pc, exit, report, token, live, idx, upserts, puts,
                   lastUpsert, elapsed, stateFile>>

\* client.export_backup(): one POST with no timeout, raise_for_status
BackupExchange ==
    /\ req.op = "backup" /\ req.stage = "send"
    /\ \E a \in {x \in Answers : x.t # "timeout"} :
        /\ Send("backup")
        /\ req' = CASE a.t = "resp" /\ a.status = 200 -> Returned(req)
                    [] a.t = "resp" /\ a.status # 200 ->
                         [Raised(req, Err("HTTPError", a.status, FALSE))
                            EXCEPT !.saw401 = (a.status = 401)]
                    [] a.t = "conn" -> Raised(req, Err("ConnectionError", 0, FALSE))
    /\ UNCHANGED <<config, previous, typed, remote, run, pc, exit, report, token, live, idx, upserts, puts,
                   lastUpsert, elapsed, stateFile>>

\* the controller carries out a request it answers with 2xx
Carry(r) ==
    CASE r.what = "create" ->
           Append(remote, Object(1 + Len(remote), vlans[idx].rec.vlan_id.v,
                                 vlans[idx].rec.name, vlans[idx].key))
      [] r.what = "update" ->
           [i \in DOMAIN remote |->
              IF remote[i].id = r.target
              THEN [remote[i] EXCEPT !.vlan = vlans[idx].rec.vlan_id.v,
                                     !.name = vlans[idx].rec.name]
              ELSE remote[i]]
      [] OTHER -> remote

\* the exception post/put raise when the login() they call raises e: an
\* HTTPError becomes the API error of resp, which is still the 401 response
ReloginError(r, e) ==
    CASE e.cls = "HTTPError" -> ApiError(401, r.body401)
      [] e.cls = "ConnectionError" -> Err("RuntimeError", 0, FALSE)
      [] OTHER -> e

\* post/put: the first exchange of an attempt
MutateSend ==
    /\ req.op \in {"post", "put"} /\ req.stage = "send"
    /\ \E a \in Answers :
        /\ Send(req.what)
        /\ CASE a.t = "resp" /\ a.status = 401 ->
                  /\ req' = [req EXCEPT !.stage = "relogin", !.saw401 = TRUE,
                                        !.body401 = a.body429]
                  /\ remote' = remote
             [] a.t = "resp" /\ a.status = 200 ->
                  /\ req' = Returned(req)
                  /\ remote' = Carry(req)
             [] OTHER ->
                  /\ req' = RetryOn429(req, ExchangeError(a))
                  /\ remote' = remote
    /\ UNCHANGED <<config, previous, typed, run, pc, exit, report, token, live, idx, upserts, puts,
                   lastUpsert, elapsed, stateFile>>

\* post/put after a 401: self.login()
MutateRelogin ==
    /\ req.op \in {"post", "put"} /\ req.stage = "relogin"
    /\ \E a \in LoginAnswers :
        LET r == [req EXCEPT !.relogins = @ + 1] IN
        /\ Send("login")
        /\ IF LoginError(a) = NoErr
           THEN token' = LoginToken(a) /\ req' = [r EXCEPT !.stage = "resend", !.body401 = FALSE]
           ELSE token' = token /\ req' = RetryOn429(r, ReloginError(r, LoginError(a)))
    /\ UNCHANGED <<config, previous, typed, remote, run, pc, exit, report, live, idx, upserts, puts,
                   lastUpsert, elapsed, stateFile>>

\* post/put after the re-login: the same request once more, raise_for_status
MutateResend ==
    /\ req.op \in {"post", "put"} /\ req.stage = "resend"
    /\ \E a \in Answers :
        /\ Send(req.what)
        /\ IF a.t = "resp" /\ a.status = 200
           THEN req' = Returned(req) /\ remote' = Carry(req)
           ELSE req' = RetryOn429(req, ExchangeError(a)) /\ remote' = remote
    /\ UNCHANGED <<config, previous, typed, run, pc, exit, report, token, live, idx, upserts, puts,
                   lastUpsert, elapsed, stateFile>>

\* --------------------------------------------------------- cli.py main

\* the entry point: apply.py's main at once, or cli.py's main, which logs in
\* before it looks at the command
Start ==
    /\ pc = "start"
    /\ IF entry = "cli"
       THEN pc' = "cli_login" /\ req' = Request("login", "login", 0)
       ELSE pc' = "load" /\ req' = req
    /\ UNCHANGED <<config, previous, typed, remote, run, exit, report, token, live, idx, sent, upserts, puts,
                   lastUpsert, elapsed, stateFile>>

\* cli.py main: login() returned, the apply command hands over to apply.py
CliApply ==
    /\ pc = "cli_login" /\ req.stage = "returned"
    /\ pc' = "load" /\ req' = Idle
    /\ UNCHANGED <<config, previous, typed, remote, run, exit, report, token, live, idx, sent, upserts, puts,
                   lastUpsert, elapsed, stateFile>>

\* cli.py main: login() raised and nothing catches it
CliLoginFailed ==
    /\ pc = "cli_login" /\ req.stage = "raised"
    /\ Return("1", Report("traceback", 0))
    /\ UNCHANGED <<config, previous, typed, remote, run, token, live, idx, sent, upserts, puts,
                   lastUpsert, elapsed, stateFile>>

\* -------------------------------------------------------- apply.py main

\* vlans_path.exists(), yaml.safe_load
LoadConfig ==
    /\ pc = "load"
    /\ IF fileExists
       THEN pc' = "validate" /\ UNCHANGED <<exit, report, req>>
       ELSE Return("1", Report("not found", 0))
    /\ UNCHANGED <<config, previous, typed, remote, run, token, live, idx, sent, upserts, puts,
                   lastUpsert, elapsed, stateFile>>

\* validate_vlan_count(vlans, "usg3p") and the validate_vlan_schema loop: the
\* first ValidationError ends the run
ApplyValidation(vl) ==
    IF ValidateVlanCount(vl, "usg3p") # "ok" THEN ValidateVlanCount(vl, "usg3p")
    ELSE SchemaLoop(vl, 1)

Validate ==
    /\ pc = "validate"
    /\ IF ApplyValidation(vlans) = "ok"
       THEN pc' = "validated" /\ UNCHANGED <<exit, report, req>>
       ELSE Return("2", Report(ApplyValidation(vlans), 0))
    /\ UNCHANGED <<config, previous, typed, remote, run, token, live, idx, sent, upserts, puts,
                   lastUpsert, elapsed, stateFile>>

\* if args.check_mode: return 0
CheckMode ==
    /\ pc = "validated" /\ flags.check_mode
    /\ Return("0", Report("check-mode", Len(vlans)))
    /\ UNCHANGED <<config, previous, typed, remote, run, token, live, idx, sent, upserts, puts,
                   lastUpsert, elapsed, stateFile>>

\* diff_configs(desired, live) with the placeholder live state, printed
Diff ==
    /\ pc = "validated" /\ ~flags.check_mode
    /\ pc' = "diffed"
    /\ UNCHANGED <<config, previous, typed, remote, run, exit, report, token, live, idx, req, sent,
                   upserts, puts, lastUpsert, elapsed, stateFile>>

\* if args.dry_run: return 0
DryRun ==
    /\ pc = "diffed" /\ flags.dry_run
    /\ Return("0", Report("dry-run", Len(vlans)))
    /\ UNCHANGED <<config, previous, typed, remote, run, token, live, idx, sent, upserts, puts,
                   lastUpsert, elapsed, stateFile>>

\* client = UniFiClient.from_env(); client.login()
Login ==
    /\ pc = "diffed" /\ ~flags.dry_run
    /\ pc' = "login"
    /\ token' = "none"
    /\ req' = Request("login", "login", 0)
    /\ UNCHANGED <<config, previous, typed, remote, run, exit, report, live, idx, sent, upserts, puts,
                   lastUpsert, elapsed, stateFile>>

\* live_networks = client.list_networks()
ListNetworks ==
    /\ pc = "login" /\ req.stage = "returned"
    /\ pc' = "list"
    /\ req' = Request("get", "list", 0)
    /\ UNCHANGED <<config, previous, typed, remote, run, exit, report, token, live, idx, sent, upserts, puts,
                   lastUpsert, elapsed, stateFile>>

\* the listing thrown away: the loop looks through an empty collection
ExportBackupListUnused ==
    /\ pc = "list" /\ req.stage = "returned"
    /\ pc' = "backup"
    /\ live' = <<>>
    /\ req' = Request("backup", "backup", 0)
    /\ UNCHANGED <<config, previous, typed, remote, run, exit, report, token, idx, sent, upserts, puts,
                   lastUpsert, elapsed, stateFile>>

\* client.export_backup()
ExportBackup ==
    /\ pc = "list" /\ req.stage = "returned"
    /\ pc' = "backup"
    /\ live' = remote
    /\ req' = Request("backup", "backup", 0)
    /\ UNCHANGED <<config, previous, typed, remote, run, exit, report, token, idx, sent, upserts, puts,
                   lastUpsert, elapsed, stateFile>>

\* the backup with no try around it: its exception reaches "except Exception"
BackupAbortUncaught ==
    /\ pc = "backup" /\ req.stage = "raised" /\ ~flags.force
    /\ Return("3", Report("unexpected error", 0))
    /\ UNCHANGED <<config, previous, typed, remote, run, token, live, idx, sent, upserts, puts,
                   lastUpsert, elapsed, stateFile>>

\* the backup failed and --force is not set
BackupAbort ==
    /\ pc = "backup" /\ req.stage = "raised" /\ ~flags.force
    /\ Return("1", Report("backup failed", 0))
    /\ UNCHANGED <<config, previous, typed, remote, run, token, live, idx, sent, upserts, puts,
                   lastUpsert, elapsed, stateFile>>

\* the prompt that takes any line for consent and stops only at end of input
ConfirmAnyLine ==
    /\ pc = "backup"
    /\ req.stage = "returned" \/ (req.stage = "raised" /\ flags.force)
    /\ IF flags.force
       THEN pc' = "loop" /\ idx' = 1 /\ req' = Idle /\ UNCHANGED <<exit, report, typed>>
       ELSE \E line \in Inputs :
              /\ typed' = line
              /\ IF line # "EOF"
                 THEN pc' = "loop" /\ idx' = 1 /\ req' = Idle /\ UNCHANGED <<exit, report>>
                 ELSE Return("1", Report("aborted", 0)) /\ idx' = idx
    /\ UNCHANGED <<config, previous, remote, run, token, live, sent, upserts, puts,
                   lastUpsert, elapsed, stateFile>>

\* the backup is saved, or failed under --force; then the prompt, unless
\* --force
Confirm ==
    /\ pc = "backup"
    /\ req.stage = "returned" \/ (req.stage = "raised" /\ flags.force)
    /\ IF flags.force
       THEN pc' = "loop" /\ idx' = 1 /\ req' = Idle /\ UNCHANGED <<exit, report, typed>>
       ELSE \E line \in Inputs :
              /\ typed' = line
              /\ IF line # "EOF" /\ StripLower(line) = "yes"
                 THEN pc' = "loop" /\ idx' = 1 /\ req' = Idle /\ UNCHANGED <<exit, report>>
                 ELSE Return("1", Report("aborted", 0)) /\ idx' = idx
    /\ UNCHANGED <<config, previous, remote, run, token, live, sent, upserts, puts,
                   lastUpsert, elapsed, stateFile>>

\* the loop's guard on VLAN 1
SkipsVlan1(rec) == rec.vlan_id.v = DefaultVlan /\ (~flags.migrate \/ ~flags.ack)

\* the head of one iteration of "for key, vlan in vlans.items()": skip VLAN 1,
\* or find_existing_vlan and the first upsert_vlan
UpsertFirst ==
    /\ pc = "loop" /\ idx <= Len(vlans)
    /\ IF SkipsVlan1(vlans[idx].rec)
       THEN /\ idx' = idx + 1
            /\ UNCHANGED <<pc, req, upserts, puts, lastUpsert>>
       ELSE LET existing == FindExistingVlan(live, vlans[idx].rec) IN
            /\ pc' = "upsert1"
            /\ req' = UpsertVlan(existing)
            /\ upserts' = [upserts EXCEPT ![idx] = @ + 1]
            /\ puts' = [puts EXCEPT ![idx] = @ \cup PutTarget(UpsertVlan(existing))]
            /\ lastUpsert' = <<[key |-> vlans[idx].key, existing |-> existing]>>
            /\ idx' = idx
    /\ UNCHANGED <<config, previous, typed, remote, run, exit, report, token, live, sent, elapsed,
                   stateFile>>

\* the same two statements once more (apply.py lines 97 and 98)
UpsertSecond ==
    /\ pc = "upsert1" /\ req.stage = "returned"
    /\ LET existing == FindExistingVlan(live, vlans[idx].rec) IN
        /\ pc' = "upsert2"
        /\ req' = UpsertVlan(existing)
        /\ upserts' = [upserts EXCEPT ![idx] = @ + 1]
        /\ puts' = [puts EXCEPT ![idx] = @ \cup PutTarget(UpsertVlan(existing))]
        /\ lastUpsert' = <<[key |-> vlans[idx].key, existing |-> existing]>>
    /\ UNCHANGED <<config, previous, typed, remote, run, exit, report, token, live, idx, sent, elapsed,
                   stateFile>>

\* time.sleep(2), next VLAN
NextVlan ==
    /\ pc = "upsert2" /\ req.stage = "returned"
    /\ pc' = "loop" /\ idx' = idx + 1 /\ req' = Idle
    /\ UNCHANGED <<config, previous, typed, remote, run, exit, report, token, live, sent, upserts, puts,
                   lastUpsert, elapsed, stateFile>>

\* the provisioning trigger sent with VLANs of the loop still to come
ProvisionBeforeLoopEnd ==
    /\ pc = "loop"
    /\ pc' = "provision"
    /\ req' = Request("post", "provision", 0)
    /\ UNCHANGED <<config, previous, typed, remote, run, exit, report, token, live, idx, sent, upserts, puts,
                   lastUpsert, elapsed, stateFile>>

\* client.provision_gateway(): a post whose exceptions are swallowed
Provision ==
    /\ pc = "loop" /\ idx > Len(vlans)
    /\ pc' = "provision"
    /\ req' = Request("post", "provision", 0)
    /\ UNCHANGED <<config, previous, typed, remote, run, exit, report, token, live, idx, sent, upserts, puts,
                   lastUpsert, elapsed, stateFile>>

\* client.wait_for_provisioning(timeout=90): start = time.time(), first poll
WaitForProvisioning ==
    /\ pc = "provision" /\ req.stage \in {"returned", "raised"}
    /\ pc' = "wait"
    /\ elapsed' = 0
    /\ req' = Request("get", "devices", 0)
    /\ UNCHANGED <<config, previous, typed, remote, run, exit, report, token, live, idx, sent, upserts, puts,
                   lastUpsert, stateFile>>

\* the seconds a poll took: 30 when it timed out, else none worth counting
PollTime(r) == IF r.err.cls = "Timeout" THEN RequestTimeout ELSE 0

\* the poll loop with its sleeps left out
PollAgainNoSleep ==
    /\ pc = "wait"
    /\ req.stage = "raised" \/ (req.stage = "returned" /\ ~req.ready)
    /\ elapsed' = elapsed + PollTime(req)
    /\ IF elapsed' < ProvisionTimeout
       THEN pc' = pc /\ req' = Request("get", "devices", 0) /\ report' = report
       ELSE pc' = "waited" /\ req' = Idle /\ report' = Report("provisioning timeout", 0)
    /\ UNCHANGED <<config, previous, typed, remote, run, exit, token, live, idx, sent, upserts, puts,
                   lastUpsert, stateFile>>

\* a poll found a device not ready, or failed: sleep, then poll again unless
\* the timeout has passed
PollAgain ==
    /\ pc = "wait"
    /\ req.stage = "raised" \/ (req.stage = "returned" /\ ~req.ready)
    /\ elapsed' = elapsed + PollTime(req) + PollInterval
    /\ IF elapsed' < ProvisionTimeout
       THEN pc' = pc /\ req' = Request("get", "devices", 0) /\ report' = report
       ELSE pc' = "waited" /\ req' = Idle /\ report' = Report("provisioning timeout", 0)
    /\ UNCHANGED <<config, previous, typed, remote, run, exit, token, live, idx, sent, upserts, puts,
                   lastUpsert, stateFile>>

\* a poll found every usg and usw device ready
PollReady ==
    /\ pc = "wait" /\ req.stage = "returned" /\ req.ready
    /\ pc' = "waited" /\ req' = Idle /\ report' = Report("provisioning complete", 0)
    /\ UNCHANGED <<config, previous, typed, remote, run, exit, token, live, idx, sent, upserts, puts,
                   lastUpsert, elapsed, stateFile>>

\* yaml.safe_dump(desired) to last-applied.yaml; return 0
SaveState ==
    /\ pc = "waited"
    /\ stateFile' = <<Desired>>
    /\ pc' = "done" /\ exit' = "0" /\ req' = Idle
    /\ UNCHANGED <<config, previous, typed, remote, run, report, token, live, idx, sent, upserts, puts,
                   lastUpsert, elapsed>>

\* "except Exception" reached by provision_gateway's error as well
UnexpectedErrorInProvision ==
    /\ pc \in {"login", "list", "upsert1", "upsert2", "provision"} /\ req.stage = "raised"
    /\ Return("3", Report("unexpected error", 0))
    /\ UNCHANGED <<config, previous, typed, remote, run, token, live, idx, sent, upserts, puts,
                   lastUpsert, elapsed, stateFile>>

\* except Exception: return 3
UnexpectedError ==
    /\ pc \in {"login", "list", "upsert1", "upsert2"} /\ req.stage = "raised"
    /\ Return("3", Report("unexpected error", 0))
    /\ UNCHANGED <<config, previous, typed, remote, run, token, live, idx, sent, upserts, puts,
                   lastUpsert, elapsed, stateFile>>

\* the operator runs the same command again with the same files
Rerun ==
    /\ pc = "done" /\ run < MaxRuns
    /\ run' = run + 1
    /\ pc' = "start"
    /\ exit' = "none"
    /\ report' = NoReport
    /\ token' = "none"
    /\ live' = <<>>
    /\ idx' = 0
    /\ req' = Idle
    /\ sent' = {}
    /\ upserts' = [i \in DOMAIN vlans |-> 0]
    /\ lastUpsert' = <<>>
    /\ elapsed' = 0
    /\ stateFile' = <<>>
    /\ typed' = "none"
    /\ previous' = exit
    /\ puts' = [i \in DOMAIN vlans |-> {}]
    /\ UNCHANGED <<config, remote>>

Next ==
    \/ Start \/ CliApply \/ CliLoginFailed
    \/ LoadConfig \/ Validate \/ CheckMode \/ Diff \/ DryRun
    \/ Login \/ ListNetworks \/ ExportBackup \/ BackupAbort \/ Confirm
    \/ UpsertFirst \/ UpsertSecond \/ NextVlan
    \/ Provision \/ WaitForProvisioning \/ PollAgain \/ PollReady \/ SaveState
    \/ UnexpectedError \/ Rerun
    \/ LoginExchange \/ GetExchange \/ BackupExchange
    \/ MutateSend \/ MutateRelogin \/ MutateResend

Spec == Init /\ [][Next]_vars

\* the apply runs of one valid declared set over every document
SpecState == InitState /\ [][Next]_vars

\* main is about to call wait_for_provisioning: an empty declared set was
\* applied under --force and provision_gateway has returned, its POST
\* answered or failed
InitWait ==
    /\ entry = "apply"
    /\ flags = [dry_run |-> FALSE, check_mode |-> FALSE, migrate |-> FALSE,
                ack |-> FALSE, force |-> TRUE]
    /\ fileExists = TRUE
    /\ vlans = <<>>
    /\ sections = PlainFile
    /\ hardware \in Hardwares
    /\ profile = "usg3p"
    /\ remote \in InitialRemotes
    /\ run = 1
    /\ previous = "none"
    /\ pc = "provision"
    /\ exit = "none"
    /\ report = NoReport
    /\ token \in {"token", "cookie-auth"}
    /\ live = remote
    /\ idx = 1
    /\ req \in { Returned(Request("post", "provision", 0)),
                  Raised(Request("post", "provision", 0), ApiError(500, FALSE)) }
    /\ sent = {"login", "list", "backup", "provision"}
    /\ upserts = <<>>
    /\ lastUpsert = <<>>
    /\ elapsed = 0
    /\ stateFile = <<>>
    /\ typed = "none"
    /\ puts = <<>>

\* wait_for_provisioning alone
NextWait == WaitForProvisioning \/ GetExchange \/ PollAgain \/ PollReady

\* wait_for_provisioning runs on: the program takes its next step, and every
\* status request ends, answered or timed out after 30 s
SpecWait == InitWait /\ [][NextWait]_vars /\ WF_vars(NextWait)

\* ------------------------------------------- apply runs, one after another

\* a valid record with the name of Users and a vlan_id of its own
Staff == [Users EXCEPT !.vlan_id = IntId(30)]

\* the declared sets of these runs: valid records under the keys "10" and
\* "20", among them two VLANs with one name
ReconcileSets ==
    { s \in SeqsUpTo([key : {"10", "20"}, rec : {Servers, Users, Staff}], MaxVlans) :
         s # <<>> /\ DistinctKeys(s) }

\* what the controller holds before the first run: its Default LAN, alone or
\* beside a network made by hand with the tag 20 or with the name "users"
ReconcileRemotes ==
    InitialRemotes \cup
    { <<Object(1, 0, "default", "pre"), Object(2, 20, "legacy", "pre")>>,
      <<Object(1, 0, "default", "pre"), Object(2, 0, "users", "pre")>> }

\* python -m apply --force on a valid declared set
InitReconcile ==
    /\ entry = "apply"
    /\ flags = [dry_run |-> FALSE, check_mode |-> FALSE, migrate |-> FALSE,
                ack |-> FALSE, force |-> TRUE]
    /\ fileExists = TRUE
    /\ vlans \in ReconcileSets
    /\ sections = PlainFile
    /\ hardware \in Hardwares
    /\ profile = "usg3p"
    /\ remote \in ReconcileRemotes
    /\ run = 1
    /\ previous = "none"
    /\ FreshRun

\* the steps such a run can take
NextReconcile ==
    \/ Start \/ LoadConfig \/ Validate \/ Diff
    \/ Login \/ ListNetworks \/ ExportBackup \/ Confirm
    \/ UpsertFirst \/ UpsertSecond \/ NextVlan
    \/ Provision \/ WaitForProvisioning \/ PollAgain \/ PollReady \/ SaveState
    \/ UnexpectedError \/ Rerun
    \/ LoginExchange \/ GetExchange \/ BackupExchange
    \/ MutateSend \/ MutateRelogin \/ MutateResend

SpecReconcile == InitReconcile /\ [][NextReconcile]_vars

\* ------------------------------------------------- the validators, called

\* the arguments of one call of a validator: a declared set, a hardware.yaml
\* and a profile name, of which one at most differs from the usual
InitValidators ==
    /\ entry = "validators"
    /\ flags = [dry_run |-> FALSE, check_mode |-> FALSE, migrate |-> FALSE,
                ack |-> FALSE, force |-> FALSE]
    /\ fileExists = TRUE
    /\ vlans \in ValidatorSets
    /\ sections = PlainFile
    /\ hardware \in ValidatorHardwares \cup InventoryHardwares
    /\ profile \in ProfileNames
    /\ hardware \in Hardwares \/ profile = "usg3p"
    /\ hardware \in InventoryHardwares => vlans = <<[key |-> "10", rec |-> Servers]>>
    /\ remote \in InitialRemotes
    /\ run = 1
    /\ previous = "none"
    /\ FreshRun

\* a validator was called and has returned or raised: pc names it, report
\* holds its outcome beside n
Called(fn, outcome, n) ==
    /\ pc = "start"
    /\ pc' = fn
    /\ report' = Report(outcome, n)
    /\ UNCHANGED <<config, previous, typed, remote, run, exit, token, live, idx, req, sent, upserts, puts,
                   lastUpsert, elapsed, stateFile>>

\* validate_vlan_count(vlans, hardware_profile)
CallValidateVlanCount ==
    Called("validate_vlan_count", ValidateVlanCount(vlans, profile), Len(vlans))

\* validate_vlan_schema(vlan) on one record of the declared set
CallValidateVlanSchema ==
    \E i \in DOMAIN vlans :
        Called("validate_vlan_schema", ValidateVlanSchema(vlans[i].rec), i)

\* validate_uplink_trunk_config(hardware, vlans)
CallValidateUplinkTrunk ==
    Called("validate_uplink_trunk_config", ValidateUplinkTrunk(hardware, vlans), Len(vlans))

\* validate_controller_ip_migration(hardware, vlans)
CallValidateControllerMigration ==
    Called("validate_controller_ip_migration",
           ValidateControllerMigration(hardware, vlans), Len(vlans))

\* what a call of validate_hardware_inventory came to: the lines of its
\* error message, and n the number of them
InventoryReport(lines) ==
    [what |-> IF lines = <<>> THEN "ok" ELSE "inventory", n |-> Len(lines), lines |-> lines]

\* validate_hardware_inventory(hardware)
CallValidateHardwareInventory ==
    /\ pc = "start"
    /\ pc' = "validate_hardware_inventory"
    /\ report' = InventoryReport(ValidateHardwareInventory(hardware))
    /\ UNCHANGED <<config, previous, typed, remote, run, exit, token, live, idx, req, sent, upserts, puts,
                   lastUpsert, elapsed, stateFile>>

NextValidators ==
    \/ CallValidateVlanCount \/ CallValidateVlanSchema
    \/ CallValidateUplinkTrunk \/ CallValidateControllerMigration
    \/ CallValidateHardwareInventory

SpecValidators == InitValidators /\ [][NextValidators]_vars

\* ------------------------------------- validate.py main and cli validate

\* config/hardware.yaml is not there
NoHardwareFile == [missing |-> TRUE]

HardwareExists(hw) == ~Has(hw, "missing")

\* hardware.yaml with a good uplink on port 1 and a second port
TwoPorts(cfg) ==
    [switches |-> <<[Switch(Trunk(<<10, 20>>))
                       EXCEPT !.port_assignments = <<Trunk(<<10, 20>>), cfg>>]>>,
     controller |-> Controller]

\* the hardware.yaml the two validation commands are run on
EntryHardwares ==
    ValidatorHardwares \cup {TwoPorts(cfg) : cfg \in InventoryPorts} \cup {NoHardwareFile}

\* the exceptions of the validators that are no ValidationError
OtherExceptions == {"ValueError", "KeyError", "AttributeError"}

\* validate_vlan_count(vlans, hardware_profile=hardware) as validate.py calls
\* it, hardware being the mapping loaded from hardware.yaml: the test of the
\* key "1" comes first, then hardware_profile.lower() raises AttributeError
ValidateVlanCountOfMapping(vl) ==
    IF HasKey(vl, "1") THEN "vlan1_key" ELSE "AttributeError"

\* validate_hardware_inventory: "ok", or that it raised
InventoryOutcome(hw) == IF ValidateHardwareInventory(hw) = <<>> THEN "ok" ELSE "inventory"

\* the try block of validate.main after vlans.yaml is loaded: the missing
\* hardware.yaml, then the validators in the order they are called
ValidateMainOutcome(vl, hw) ==
    IF ~HardwareExists(hw) THEN "no_hardware_file"
    ELSE IF ValidateVlanCountOfMapping(vl) # "ok" THEN ValidateVlanCountOfMapping(vl)
    ELSE IF SchemaLoop(vl, 1) # "ok" THEN SchemaLoop(vl, 1)
    ELSE IF ValidateUplinkTrunk(hw, vl) # "ok" THEN ValidateUplinkTrunk(hw, vl)
    ELSE ValidateControllerMigration(hw, vl)

\* the validators of cmd_validate in the order they are called
CmdValidateOutcome(vl, hw) ==
    IF ValidateVlanCount(vl, "usg3p") # "ok" THEN ValidateVlanCount(vl, "usg3p")
    ELSE IF SchemaLoop(vl, 1) # "ok" THEN SchemaLoop(vl, 1)
    ELSE IF ValidateUplinkTrunk(hw, vl) # "ok" THEN ValidateUplinkTrunk(hw, vl)
    ELSE IF ValidateControllerMigration(hw, vl) # "ok"
         THEN ValidateControllerMigration(hw, vl)
    ELSE InventoryOutcome(hw)

\* validate.main: except ValidationError: return 2; except Exception: return 3
ValidateMainCode(outcome) ==
    IF outcome = "ok" THEN "0"
    ELSE IF outcome \in OtherExceptions THEN "3"
    ELSE "2"

\* the exit status of a Python process that ends on an uncaught exception
UncaughtExit == "1"

\* one run of a validation command on one pair of files
InitEntry ==
    /\ entry \in {"validate", "cli_validate"}
    /\ flags = [dry_run |-> FALSE, check_mode |-> FALSE, migrate |-> FALSE,
                ack |-> FALSE, force |-> FALSE]
    /\ fileExists \in BOOLEAN
    /\ vlans \in SchemaSets
    /\ fileExists = FALSE => vlans = <<>>
    /\ sections = PlainFile
    /\ hardware \in EntryHardwares
    /\ profile = "usg3p"
    /\ remote \in InitialRemotes
    /\ run = 1
    /\ previous = "none"
    /\ FreshRun

\* validate.main: the HARDWARE_PROFILE variable is read, vlans.yaml looked for
ValidateMainStart ==
    /\ pc = "start" /\ entry = "validate"
    /\ IF fileExists
       THEN pc' = "validate_main_try" /\ UNCHANGED <<exit, report, req>>
       ELSE Return("1", Report("not found", 0))
    /\ UNCHANGED <<config, previous, typed, remote, run, token, live, idx, sent, upserts, puts,
                   lastUpsert, elapsed, stateFile>>

\* validate.main: the try block and its two except clauses
ValidateMainTry ==
    /\ pc = "validate_main_try"
    /\ LET outcome == ValidateMainOutcome(vlans, hardware)
       IN  Return(ValidateMainCode(outcome), Report(outcome, Len(vlans)))
    /\ UNCHANGED <<config, previous, typed, remote, run, token, live, idx, sent, upserts, puts,
                   lastUpsert, elapsed, stateFile>>

\* cli.py main: the validate command is handed to cmd_validate before the
\* client is made
CliValidate ==
    /\ pc = "start" /\ entry = "cli_validate"
    /\ pc' = "cmd_validate"
    /\ UNCHANGED <<config, previous, typed, remote, run, exit, report, token, live, idx, req, sent,
                   upserts, puts, lastUpsert, elapsed, stateFile>>

\* cmd_validate: both files opened, the five validators called with no try
\* around them, then return 0
CmdValidate ==
    /\ pc = "cmd_validate"
    /\ IF ~fileExists \/ ~HardwareExists(hardware)
       THEN Return(UncaughtExit, Report("FileNotFoundError", 0))
       ELSE LET outcome == CmdValidateOutcome(vlans, hardware)
            IN  IF outcome = "ok"
                THEN Return("0", Report("ok", Len(vlans)))
                ELSE Return(UncaughtExit, Report(outcome, Len(vlans)))
    /\ UNCHANGED <<config, previous, typed, remote, run, token, live, idx, sent, upserts, puts,
                   lastUpsert, elapsed, stateFile>>

NextEntry == ValidateMainStart \/ ValidateMainTry \/ CliValidate \/ CmdValidate

SpecEntry == InitEntry /\ [][NextEntry]_vars

\* ------------------------------------------- find_existing_vlan, called

\* the network objects of the collections find_existing_vlan is tried on:
\* the Default LAN without a tag, and objects that share a tag or a name
NetworkPool ==
    { Object(1, 0, "default", "pre"), Object(2, 10, "servers", "pre"),
      Object(3, 20, "users", "pre"), Object(4, 20, "guests", "pre"),
      Object(5, 30, "users", "pre") }

\* the collections: no object twice
NetworkCollections ==
    { c \in SeqsUpTo(NetworkPool, MaxNetworks) :
         \A i, j \in DOMAIN c : i # j => c[i].id # c[j].id }

\* a record that matches no object of NetworkPool
Cameras == [Users EXCEPT !.name = "cameras", !.vlan_id = IntId(40)]

\* one call of find_existing_vlan: the controller's collection, one record
InitFind ==
    /\ entry = "find_existing_vlan"
    /\ flags = [dry_run |-> FALSE, check_mode |-> FALSE, migrate |-> FALSE,
                ack |-> FALSE, force |-> FALSE]
    /\ fileExists = TRUE
    /\ vlans \in {<<[key |-> "10", rec |-> r]>> : r \in {Servers, Users, Cameras}}
    /\ sections = PlainFile
    /\ hardware \in Hardwares
    /\ profile = "usg3p"
    /\ remote \in NetworkCollections
    /\ run = 1
    /\ previous = "none"
    /\ FreshRun

\* what a call of find_existing_vlan came to: the shape it was given, the
\* object it returned (found, as a sequence of zero or one) and its _id
FindReport(shape, found) ==
    [what |-> IF found = <<>> THEN "none" ELSE "found",
     n |-> IF found = <<>> THEN 0 ELSE Head(found).id,
     shape |-> shape, found |-> found]

\* find_existing_vlan(networks, vlan): networks is the collection in one of
\* its shapes
CallFindExistingVlan ==
    /\ pc = "start"
    /\ \E shape \in Shapes :
        /\ pc' = "find_existing_vlan"
        /\ live' = remote
        /\ report' = FindReport(shape, FindExistingVlanIn(shape, remote, vlans[1].rec))
    /\ UNCHANGED <<config, previous, typed, remote, run, exit, token, idx, req, sent, upserts, puts,
                   lastUpsert, elapsed, stateFile>>

NextFind == CallFindExistingVlan

SpecFind == InitFind /\ [][NextFind]_vars

\* ----------------------------------------------------------------- claims

\* the run is over
Done == pc = "done"

\* the declared set holds the default VLAN: under the key "1", or as a record
\* whose vlan_id is 1
HasDefaultVlan(vl) ==
    \/ HasKey(vl, "1")
    \/ \E i \in DOMAIN vl : Has(vl[i].rec, "vlan_id") /\ vl[i].rec.vlan_id = IntId(DefaultVlan)

\* the ValidationErrors of validate_vlan_count and validate_vlan_schema
ValidationErrors ==
    {"vlan1_key", "unknown_profile", "too_many", "missing_field", "not_int", "vlan1",
     "range", "reserved", "dhcp_overlap"}

\* a VLAN was created or updated in this run
Mutated == sent \cap {"create", "update"} # {}

\* C1: a run whose declared set validate_vlan_count or validate_vlan_schema
\* rejects ends with exit code 2 and has issued no HTTP request, login included.
C1_RejectedBeforeAnyRequest ==
    (Done /\ report.what \in ValidationErrors) => (exit = "2" /\ sent = {})

\* C2: with --dry-run or --check-mode no request is ever issued, and the
\* dry-run reports the number of declared VLANs.
C2_DryRunIssuesNoRequest ==
    (flags.dry_run \/ flags.check_mode) =>
        /\ sent = {}
        /\ report.what = "dry-run" => report.n = Len(vlans)

\* C3: no VLAN is created or updated for a configuration that any of the four
\* validator groups rejects: count, schema, uplink trunk, controller migration.
C3_AllValidatorsGate ==
    Mutated =>
        /\ ApplyValidation(vlans) = "ok"
        /\ ValidateUplinkTrunk(hardware, vlans) = "ok"
        /\ ValidateControllerMigration(hardware, vlans) = "ok"

C6_OneUpsertPerVlan == \A i \in DOMAIN upserts : upserts[i] <= 1

\* C7: upsert_vlan issues a POST only when it is given no existing object with
\* an _id, and otherwise a PUT on that _id; so a record applied again, when the
\* lookup returns the object its first application created, is PUT on that
\* object and not POSTed again.
C7_UpsertIdempotent ==
    (req.what \in {"create", "update"}) =>
        LET e == lastUpsert[1].existing IN
        /\ req.op = "post" <=> (e = <<>> \/ Head(e).id = 0)
        /\ req.op = "post" <=> req.what = "create"
        /\ req.op = "put" => req.target = Head(e).id
        /\ (e # <<>> /\ Head(e).id # 0 /\ Head(e).origin = lastUpsert[1].key)
              => (req.op = "put" /\ req.what = "update" /\ req.target = Head(e).id)

\* C7 witness: a second run updated the object the first run created for the
\* same declared VLAN
C7_Witness ==
    /\ run = 2 /\ req.op = "put" /\ req.stage = "returned"
    /\ lastUpsert # <<>>
    /\ lastUpsert[1].existing # <<>>
    /\ Head(lastUpsert[1].existing).origin = lastUpsert[1].key

\* every finished attempt of the call in progress was answered 429
All429 == \A i \in DOMAIN req.answers : req.answers[i] = "429"

\* C8: post and put sleep backoff^attempt between attempts and at no other
\* time; answered 429 every time they make exactly 3 attempts, sleep 1 then 2,
\* and raise the error of the last attempt.
C8_RetryOn429 ==
    (req.op \in {"post", "put"}) =>
        /\ Len(req.sleeps) = req.attempt
        /\ \A i \in DOMAIN req.sleeps : req.sleeps[i] = Pow(Backoff, i - 1)
        /\ \A i, j \in DOMAIN req.sleeps : i < j => req.sleeps[i] < req.sleeps[j]
        /\ (req.stage = "raised" /\ All429) =>
              /\ Len(req.answers) = MaxRetries
              /\ req.sleeps = <<1, 2>>
              /\ req.err.cls = "RuntimeError" /\ req.err.status = 429

\* C8 witness: a put answered 429 three times has raised
C8_Witness ==
    /\ req.op = "put" /\ req.stage = "raised"
    /\ req.answers = <<"429", "429", "429">>

\* C9: an attempt of post or put that fails with anything but status 429 is
\* the last one: its error is raised at once, with no sleep and no retry.
C9_OnlyStatus429Retried ==
    (req.op \in {"post", "put"}) =>
        \A i \in DOMAIN req.answers :
            req.answers[i] \in {"text429", "error"} =>
                (i = Len(req.answers) /\ req.stage = "raised" /\ Len(req.sleeps) = i - 1)

\* C10: a client call that met a 401 has logged in again exactly once when it
\* ends, and no call logs in again more than once.
C10_OneReloginOn401 ==
    /\ req.relogins <= 1
    /\ (req.stage \in {"returned", "raised"} /\ req.saw401) => req.relogins = 1

\* C11: login succeeds on every 2xx response whatever the body holds, and then
\* the token is the body's token or the cookie marker, never empty; login
\* fails only when the response is not 2xx (or there is none), and a failed
\* login leaves the token as it was.  IndexError is what login raises on a
\* 2xx response whose data list is empty.
C11_LoginOnEvery2xx ==
    /\ (req.op = "login" /\ req.stage = "returned") => token \in {"token", "cookie-auth"}
    /\ (req.op = "login" /\ req.stage = "raised") =>
          (req.err.cls \in {"HTTPError", "ConnectionError"} /\ token = "none")
    /\ (req.op \in {"post", "put"} /\ req.stage = "raised") => req.err.cls # "IndexError"

\* the backup export of this run has failed
BackupFailed == pc = "backup" /\ req.stage = "raised"

\* C12: when the backup export fails, the next step of the run ends it with
\* exit code 1 and no VLAN created or updated if --force is not set, and goes
\* on to the upsert loop only if --force is set.
C12_BackupFailureAborts ==
    [][BackupFailed =>
         IF flags.force
         THEN pc' = "loop" /\ exit' = "none"
         ELSE pc' = "done" /\ exit' = "1" /\ ~Mutated' /\ report'.what = "backup failed"]_vars

\* C12 witness: a run without --force has ended on its failed backup
C12_Witness ==
    /\ Done /\ exit = "1" /\ report.what = "backup failed"
    /\ ~flags.force /\ "backup" \in sent /\ ~Mutated

\* the run is in or past the upsert loop
PastConfirmation ==
    pc \in {"loop", "upsert1", "upsert2", "provision", "wait", "waited"} \/ Mutated

\* C13 as stated: without --force a VLAN is upserted only after the operator
\* typed the literal text "yes"; any other input, or none, ends the run with
\* exit code 1 before any mutating request.
C13_LiteralYes ==
    ~flags.force =>
        /\ PastConfirmation => typed = "yes"
        /\ typed \notin {"none", "yes"} => (Done /\ exit = "1" /\ ~Mutated)

\* the lines that read "yes" once stripped of blanks and put in lower case
ReadsAsYes == {"yes", " YES "}

\* C13 amended: without --force a VLAN is upserted only after the operator
\* typed a line that reads "yes" once stripped and lower-cased; any other
\* line, or end of input, ends the run with exit code 1 before any mutating
\* request; with --force no line is read.
C13_YesAfterStripLower ==
    /\ ~flags.force =>
          /\ PastConfirmation => typed \in ReadsAsYes
          /\ typed \notin ({"none"} \cup ReadsAsYes) =>
                (Done /\ exit = "1" /\ ~Mutated /\ report.what = "aborted")
    /\ flags.force => typed = "none"

\* C13 witness: the operator typed " YES " and a VLAN was created
C13_Witness == ~flags.force /\ typed = " YES " /\ "create" \in sent

\* C14: the state file a run wrote is the sanitized copy of the desired
\* configuration: its controller and wan sections hold none of the keys
\* password, secret, community, radius_key.
C14_StateFileSanitized ==
    stateFile # <<>> =>
        LET written == Head(stateFile) IN
        /\ written = SanitizeStateForStorage(Desired)
        /\ written.controller # Absent => Head(written.controller) \cap SecretKeys = {}
        /\ written.wan # Absent => Head(written.wan) \cap SecretKeys = {}

\* C15: nothing in the provisioning phase ends the run: while the trigger or
\* the poll is under way, failed or not, the run has no exit code, and a run
\* that sent the trigger ends with the state file written and exit code 0,
\* also when the poll timed out.
C15_ProvisioningNotFatal ==
    /\ pc \in {"provision", "wait", "waited"} => exit = "none"
    /\ (Done /\ "provision" \in sent) => (exit = "0" /\ stateFile # <<>>)
    /\ (Done /\ report.what = "provisioning timeout") => (exit = "0" /\ stateFile # <<>>)

\* C15 witness: the run ended with exit code 0 and the state file written
\* after its provisioning poll had timed out
C15_Witness ==
    /\ Done /\ exit = "0" /\ stateFile # <<>>
    /\ report.what = "provisioning timeout" /\ elapsed >= ProvisionTimeout

\* the latest poll did not end the wait: a device not ready, or a failed fetch
PollGoesOn == pc = "wait" /\ (req.stage = "raised" \/ (req.stage = "returned" /\ ~req.ready))

\* the latest poll found every usg and usw device ready
PollFoundReady == pc = "wait" /\ req.stage = "returned" /\ req.ready

\* C16: wait_for_provisioning always returns and never raises; it polls only
\* while the timeout has not elapsed; it returns true exactly when a poll
\* found every usg and usw device ready, and false only once the timeout has
\* elapsed; after every poll that does not end the wait it sleeps the poll
\* interval.
C16_WaitForProvisioning ==
    /\ [](pc = "wait" => (elapsed < ProvisionTimeout /\ exit = "none"))
    /\ [][(pc = "wait" /\ pc' = "waited") =>
            /\ report'.what = "provisioning complete" <=> PollFoundReady
            /\ report'.what = "provisioning timeout" <=> (PollGoesOn /\ elapsed' >= ProvisionTimeout)
            /\ report'.what \in {"provisioning complete", "provisioning timeout"}]_vars
    /\ [][PollFoundReady => pc' = "waited"]_vars
    /\ [][PollGoesOn => elapsed' >= elapsed + PollInterval]_vars
    /\ (pc = "wait") ~> (pc = "waited")

\* C16 witness: the wait returned false after eighteen polls that each found
\* a device not ready or failed at once
C16_Witness ==
    /\ pc = "waited" /\ report.what = "provisioning timeout"
    /\ elapsed = ProvisionTimeout

\* the fixed set of hardware profiles and their ceilings
FixedProfiles == {"usg3p", "uxg-pro", "udm-se", "udm-pro"}
Ceiling(p) == IF p = "usg3p" THEN LimitUsg3p ELSE LimitBig

SchemaShouldFail(rec) ==
    \/ ~(RequiredFields \subseteq DOMAIN rec)
    \/ /\ RequiredFields \subseteq DOMAIN rec
       /\ \/ rec.vlan_id.t # "int"
          \/ rec.vlan_id.v < VlanIdMin \/ rec.vlan_id.v > VlanIdMax
          \/ rec.vlan_id.v = DefaultVlan
          \/ /\ rec.dhcp_enabled
             /\ Has(rec, "dhcp_start") /\ Has(rec, "dhcp_stop")
             /\ IpInt(rec.dhcp_start) <= IpInt(rec.gateway)
             /\ IpInt(rec.gateway) <= IpInt(rec.dhcp_stop)

\* C18: validate_vlan_schema fails iff a required field is absent, or vlan_id
\* is not an integer, is outside [1, 4094] or is 1, or DHCP is enabled and
\* the gateway lies in [dhcp_start, dhcp_stop].
C18_SchemaFailsIff ==
    pc = "validate_vlan_schema" =>
        (report.what # "ok" <=> SchemaShouldFail(vlans[report.n].rec))

\* the hardware and declared sets C19 says are accepted
TrunkShouldPass(hw, vl) ==
    \E i \in DOMAIN hw.switches :
        LET sw == hw.switches[i] IN
        /\ sw.model = "US-8-60W"
        /\ \A j \in 1 .. (i - 1) : hw.switches[j].model # "US-8-60W"
        /\ sw.uplink_port # <<>>
        /\ Head(sw.uplink_port) \in DOMAIN sw.port_assignments
        /\ LET uplink == sw.port_assignments[Head(sw.uplink_port)] IN
           /\ uplink.type = "trunk"
           /\ uplink.native_vlan = 1
           /\ Range(uplink.tagged_vlans) = {KeyInt(vl[k].key) : k \in DOMAIN vl} \ {1}

\* C19: validate_uplink_trunk_config succeeds iff the US-8-60W switch is
\* there, its uplink is a trunk with native VLAN 1, and the set of its tagged
\* VLANs (whatever their order and repetitions) is the declared identities
\* minus 1.
C19_TrunkSucceedsIff ==
    pc = "validate_uplink_trunk_config" =>
        (report.what = "ok" <=> TrunkShouldPass(hardware, vlans))

\* the hardware and declared sets C20 says are accepted
MigrationShouldPass(hw, vl) ==
    /\ Has(hw.controller, "current_ip") /\ Has(hw.controller, "target_ip")
    /\ hw.controller.current_ip # hw.controller.target_ip
    /\ Lookup(vl, "10") # <<>>
    /\ LET vlan10 == Head(Lookup(vl, "10")).rec IN
       /\ Has(vlan10, "subnet") /\ ValidNetwork(vlan10.subnet)
       /\ InSubnet(hw.controller.target_ip, vlan10.subnet)
       /\ Has(vlan10, "gateway")
       /\ InSubnet(vlan10.gateway, vlan10.subnet)

\* C20: validate_controller_ip_migration succeeds iff both addresses are
\* given and differ, VLAN "10" is declared, and target_ip and the gateway of
\* that VLAN are in its subnet; in every other case it raises a
\* ValidationError.
C20_MigrationSucceedsIff ==
    pc = "validate_controller_ip_migration" =>
        /\ report.what = "ok" <=> MigrationShouldPass(hardware, vlans)
        /\ report.what \notin OtherExceptions

\* the violations of a hardware.yaml: switch, port and kind
Violations(hw) ==
    { <<i, p, "tbd">> : i \in DOMAIN hw.switches, p \in 1 .. MaxVlans } \cup
    { <<i, p, "mac">> : i \in DOMAIN hw.switches, p \in 1 .. MaxVlans }

IsViolation(hw, v) ==
    /\ v[2] \in DOMAIN hw.switches[v[1]].port_assignments
    /\ LET cfg == hw.switches[v[1]].port_assignments[v[2]]
       IN  IF v[3] = "tbd" THEN HasMarker(cfg) ELSE MissingMac(cfg)

\* C21: validate_hardware_inventory fails iff some port assignment of some
\* switch holds the placeholder marker or names a device other than "empty"
\* with no hardware address, and then its message has one line for every such
\* violation of every port of every switch: as many lines as violations, and
\* the line of each among them.
C21_InventoryCollectsAll ==
    pc = "validate_hardware_inventory" =>
        LET found == {v \in Violations(hardware) : IsViolation(hardware, v)} IN
        /\ report.what # "ok" <=> found # {}
        /\ Len(report.lines) = Cardinality(found)
        /\ \A v \in found :
              \E k \in DOMAIN report.lines :
                  report.lines[k] = Line(hardware.switches[v[1]].model, v[2], v[3])

\* C21 witness: the message holds the lines of two switches, the first with
\* both violations on one port
C21_Witness ==
    /\ pc = "validate_hardware_inventory" /\ report.what = "inventory"
    /\ Len(hardware.switches) = 2
    /\ \E k \in DOMAIN report.lines : report.lines[k].model = "US-16-150W"
    /\ \E j, k \in DOMAIN report.lines :
          /\ report.lines[j] = Line("US-8-60W", 1, "tbd")
          /\ report.lines[k] = Line("US-8-60W", 1, "mac")

\* two records of the declared set carry the same vlan_id
DuplicateVlanId(vl) ==
    \E i, j \in DOMAIN vl :
        /\ i # j
        /\ Has(vl[i].rec, "vlan_id") /\ Has(vl[j].rec, "vlan_id")
        /\ vl[i].rec.vlan_id = vl[j].rec.vlan_id

\* C22: a declared set in which two records carry the same vlan_id is
\* rejected by validation: its run never gets past validation, and no run
\* invokes upsert_vlan for two records with the same vlan_id.
C22_VlanIdUnique ==
    /\ DuplicateVlanId(vlans) =>
          /\ pc \in {"start", "cli_login", "load", "validate", "done"}
          /\ exit \in {"none", "1", "2"}
    /\ \A i, j \in DOMAIN vlans :
          (i # j /\ upserts[i] > 0 /\ upserts[j] > 0)
              => vlans[i].rec.vlan_id # vlans[j].rec.vlan_id

\* every validator validate.main calls accepts the configuration
ValidatorsAccept(vl, hw) ==
    /\ ValidateVlanCount(vl, profile) = "ok"
    /\ SchemaLoop(vl, 1) = "ok"
    /\ ValidateUplinkTrunk(hw, vl) = "ok"
    /\ ValidateControllerMigration(hw, vl) = "ok"

\* C23: validate.main returns 0 whenever both files exist and the count,
\* schema, uplink-trunk and controller-migration validators all accept; 1
\* when vlans.yaml is missing; 2 when a validator raises ValidationError.
C23_ValidateMainCodes ==
    (entry = "validate" /\ Done) =>
        /\ ~fileExists => exit = "1"
        /\ (fileExists /\ HardwareExists(hardware) /\ ValidatorsAccept(vlans, hardware))
              => exit = "0"
        /\ exit = "2" => report.what \notin OtherExceptions \cup {"ok"}

\* the five validators of the validate command all accept
AllValidatorsAccept(vl, hw) ==
    /\ ValidateVlanCount(vl, "usg3p") = "ok"
    /\ SchemaLoop(vl, 1) = "ok"
    /\ ValidateUplinkTrunk(hw, vl) = "ok"
    /\ ValidateControllerMigration(hw, vl) = "ok"
    /\ ValidateHardwareInventory(hw) = <<>>

\* C24: the validate command of the cli issues no request and runs the five
\* validators: with both files there it exits with 0 when all of them accept
\* and with 2 when one of them raises a ValidationError.
C24_CliValidateCodes ==
    (entry = "cli_validate" /\ Done /\ fileExists /\ HardwareExists(hardware)) =>
        /\ sent = {}
        /\ AllValidatorsAccept(vlans, hardware) <=> exit = "0"
        /\ (report.what \notin OtherExceptions \cup {"ok"}) => exit = "2"

\* an upsert_vlan was invoked in this run
Upserting == \E i \in DOMAIN upserts : upserts[i] > 0

\* where the steps of an apply run stand, from what the run has sent, read
\* and written so far: each step is after the ones before it
StepsInOrder ==
    /\ "list" \in sent => ("login" \in sent /\ token # "none")
    /\ "backup" \in sent => "list" \in sent
    /\ typed # "none" => ("backup" \in sent /\ ~flags.force)
    /\ Upserting => ("backup" \in sent /\ (flags.force \/ typed \in ReadsAsYes))
    /\ Mutated => Upserting
    /\ \A i \in DOMAIN upserts :
          /\ upserts[i] > 0 => (i <= idx /\ \A j \in 1 .. (i - 1) : upserts[j] > upserts[i] - 1)
          /\ i > idx => upserts[i] = 0
    /\ req.what \in {"create", "update"} =>
          (idx \in DOMAIN vlans /\ lastUpsert[1].key = vlans[idx].key)
    /\ "provision" \in sent => (idx > Len(vlans) /\ \A i \in DOMAIN upserts : upserts[i] > 0)
    /\ "devices" \in sent => "provision" \in sent
    /\ stateFile # <<>> => ("devices" \in sent /\ Done /\ exit = "0")

\* a step of main begins only when the one before it returned: a call that
\* raised ends the run, but for the backup under --force and the trigger
StepsComplete ==
    /\ (pc = "login" /\ pc' = "list") => req.stage = "returned"
    /\ (pc = "list" /\ pc' = "backup") => req.stage = "returned"
    /\ (pc = "backup" /\ pc' = "loop") => (req.stage = "returned" \/ flags.force)
    /\ (pc = "upsert1" /\ pc' = "upsert2") => req.stage = "returned"
    /\ (pc = "upsert2" /\ pc' = "loop") => (req.stage = "returned" /\ idx' = idx + 1)
    /\ (pc = "loop" /\ pc' = "upsert1") => idx' = idx
    /\ (pc \in {"login", "list", "backup", "upsert1", "upsert2"} /\ pc' # pc) =>
          pc' \in { CASE pc = "login" -> "list" [] pc = "list" -> "backup"
                       [] pc = "backup" -> "loop" [] pc = "upsert1" -> "upsert2"
                       [] OTHER -> "loop", "done" }
    /\ (pc = "loop" /\ pc' # pc) => pc' \in {"upsert1", "provision"}
    /\ (pc = "provision" /\ pc' # pc) => pc' = "wait"
    /\ (pc = "wait" /\ pc' # pc) => pc' = "waited"
    /\ (pc = "waited" /\ pc' # pc) => (pc' = "done" /\ stateFile' # <<>>)

\* C25: in an apply run with neither --dry-run nor --check-mode the steps come
\* in the order login, listing, backup, confirmation, the upserts of one VLAN
\* after the other in file order, provisioning trigger, provisioning poll,
\* state file; a step begins only when every step before it returned, or its
\* failure was overridden by --force.
C25_StepsInOrder ==
    /\ []((~flags.dry_run /\ ~flags.check_mode) => StepsInOrder)
    /\ [][(~flags.dry_run /\ ~flags.check_mode) => StepsComplete]_vars

\* C25 witness: a run without --force went through every step for two VLANs
C25_Witness ==
    /\ Done /\ exit = "0" /\ stateFile # <<>>
    /\ ~flags.force /\ typed = "yes"
    /\ Len(vlans) = MaxVlans /\ \A i \in DOMAIN upserts : upserts[i] > 0
    /\ {"login", "list", "backup", "create", "provision", "devices"} \subseteq sent

\* login, the listing or an upsert_vlan of this run has raised
StepFailed ==
    /\ pc \in {"cli_login", "login", "list", "upsert1", "upsert2"}
    /\ req.stage = "raised"

\* the run ended on such a failure
EndedOnFailure == Done /\ report.what \in {"traceback", "unexpected error"}

\* C26: when login, the listing or an upsert fails, the next step ends the
\* run with exit code 3 and sends nothing more, so the controller keeps what
\* earlier upserts of the run wrote; a run ended this way has upserted no
\* later VLAN, has not triggered provisioning and has written no state file.
C26_FailureEndsWithExit3 ==
    /\ [][StepFailed =>
            (pc' = "done" /\ exit' = "3" /\ remote' = remote /\ sent' = sent
               /\ upserts' = upserts /\ stateFile' = <<>>)]_vars
    /\ [](EndedOnFailure =>
            /\ exit = "3"
            /\ \A i \in DOMAIN upserts : i > idx => upserts[i] = 0
            /\ "provision" \notin sent /\ "devices" \notin sent
            /\ stateFile = <<>>)

\* the object's VLAN tag is the record's vlan_id, or its name the record's
Matches(n, rec) == n.vlan = rec.vlan_id.v \/ n.name = rec.name

\* C27: find_existing_vlan returns an object iff the collection holds one
\* whose tag or name matches the record, and then the first such object in
\* the order of the collection, for the mapping shape and for the bare list;
\* otherwise it returns none.
C27_FindFirstMatch ==
    pc = "find_existing_vlan" =>
        LET hits == {k \in DOMAIN live : Matches(live[k], vlans[1].rec)} IN
        /\ report.what = "found" <=> hits # {}
        /\ hits # {} =>
              report.found = <<live[CHOOSE k \in hits : \A h \in hits : k <= h]>>

C29_DistinctPutTargets ==
    \A i, j \in DOMAIN puts :
        (i # j /\ vlans[i].rec.vlan_id # vlans[j].rec.vlan_id) => puts[i] \cap puts[j] = {}

====
